---- MODULE Spec2Model ----
(***************************************************************************)
(* State-machine model of the ecommerce-api order core: the Redis cart,    *)
(* checkout (orders/views.py OrderListCreateView.create), cancellation     *)
(* (CancelOrderView.update), the admin status update                       *)
(* (UpdateOrderStatusView.perform_update), the Stripe webhook              *)
(* (payments/views.py stripe_webhook) and the admin product endpoints.     *)
(*                                                                         *)
(* The durable store is modelled with READ COMMITTED row semantics: the    *)
(* variables stock/price/products/orders hold committed rows; a            *)
(* transaction keeps its uncommitted writes in its request record and      *)
(* holds the row locks it took with select_for_update until it commits or  *)
(* rolls back.                                                             *)
(***************************************************************************)
EXTENDS Integers, Sequences, FiniteSets, TLC

\* ---------------------------------------------------------------- bounds
NumUsers == 2
NumProducts == 2
NumReqs == 2
MaxStock == 2
MaxPrice == 2
MaxOrders == 2
MaxPayments == 1
TtlTicks == 2

Users == 1..NumUsers
Products == 1..NumProducts
Reqs == 1..NumReqs
Prices == 1..MaxPrice
OrderIds == 1..MaxOrders
IntentIds == 1..MaxPayments
Quantities == 1..MaxStock

\* ------------------------------------------------------------- constants
\* Order.STATUS_CHOICES
STATUS_CHOICES == {"pending", "paid", "shipped", "delivered", "canceled"}

\* Order.VALID_STATUS_TRANSITIONS
VALID_STATUS_TRANSITIONS ==
  [s \in STATUS_CHOICES |->
     CASE s = "pending" -> {"paid", "canceled"}
       [] s = "paid" -> {"shipped", "canceled"}
       [] s = "shipped" -> {"delivered"}
       [] s = "delivered" -> {}
       [] s = "canceled" -> {}]

HTTP_200_OK == 200
HTTP_201_CREATED == 201
HTTP_400_BAD_REQUEST == 400
HTTP_404_NOT_FOUND == 404
HTTP_500_INTERNAL_SERVER_ERROR == 500

VARIABLES
  stock,     \* Product.stock of every product row (committed)
  price,     \* Product.price of every product row (committed)
  products,  \* ids of the product rows that exist
  cart,      \* Redis: user -> hash product id -> quantity
  orders,    \* committed Order rows with their OrderItem rows, by id
  plock,     \* product row lock: the request holding it, 0 when free
  olock,     \* order row lock: the request holding it, 0 when free
  req,       \* the request each worker is handling (position and locals)
  out,       \* the response sent by the step just taken (NoResp when none)
  adm,       \* the admin request in flight
  payments,  \* committed Payment rows, by Stripe payment intent id
  ttl        \* Redis: remaining time to live of each user's cart key, in
             \* ticks; 0 when the key does not exist

vars ==
  <<stock, price, products, cart, orders, plock, olock, req, out, adm, payments, ttl>>

\* ---------------------------------------------------------------- helpers
Max(S) == CHOOSE m \in S : \A x \in S : x <= m
Min(S) == CHOOSE m \in S : \A x \in S : m <= x

RECURSIVE SeqDesc(_)
\* The ids of S, newest product first (Product.Meta.ordering = ["-created_at"];
\* ids are handed out in creation order).
SeqDesc(S) == IF S = {} THEN <<>> ELSE <<Max(S)>> \o SeqDesc(S \ {Max(S)})

RECURSIVE SumSeq(_, _)
SumSeq(f(_), s) == IF s = <<>> THEN 0 ELSE f(Head(s)) + SumSeq(f, Tail(s))

EmptyMap == <<>>

\* Mutant: the line is priced with the product's current price.
LineTotalOfProduct(item) == price[item.product] * item.quantity

\* Order.total_price
LineTotal(item) == item.price * item.quantity
total_price(order) == SumSeq(LineTotal, order.items)

\* RedisCart.get_cart_details: the entries whose product exists, joined with the
\* product's current price.
DetailItem(u, p) ==
  [product_id |-> p, price |-> price[p], quantity |-> cart[u][p],
   subtotal |-> price[p] * cart[u][p]]

\* Mutant: every entry of the cart is listed, its product deleted or not.
DetailIdsAll(u) == SeqDesc(DOMAIN cart[u])

DetailIds(u) == SeqDesc(DOMAIN cart[u] \cap products)

get_cart_details(u) ==
  LET ids == DetailIds(u)
      items == [i \in 1..Len(ids) |-> DetailItem(u, ids[i])]
      sub(it) == it.subtotal
  IN [items |-> items, total_price |-> SumSeq(sub, items), count |-> Len(items)]

\* Mutant: one key for the carts of all users.
CartClearAll(u) == [v \in Users |-> EmptyMap]

\* RedisCart.clear: the key is deleted, and its time to live with it.
CartClear(u) == [cart EXCEPT ![u] = EmptyMap]

\* ---------------------------------------------------- requests, responses
Idle ==
  [op |-> "idle", pc |-> "idle", user |-> 0, items |-> <<>>, idx |-> 0,
   newItems |-> <<>>, writes |-> EmptyMap, order |-> 0,
   product_id |-> 0, quantity |-> 0, stock |-> 0, current_qty |-> 0]

\* A response: the operation and caller it answers, the HTTP status, the error
\* it names (detail: what the message says about it; for a cart request that
\* succeeded the product and quantity it was about, for the cart view the
\* snapshot), the order it is about and the total_price of the order it returns.
NoResp ==
  [op |-> "none", user |-> 0, code |-> 0, error |-> "", detail |-> <<>>, order |-> 0,
   total |-> 0]

Response(op, u, code, error, o, total) ==
  [op |-> op, user |-> u, code |-> code, error |-> error, detail |-> <<>>, order |-> o,
   total |-> total]

ErrorResponse(op, u, code, error, detail) ==
  [op |-> op, user |-> u, code |-> code, error |-> error, detail |-> detail, order |-> 0,
   total |-> 0]

\* The admin's product update between its read of the row and its write.
AdmIdle ==
  [pc |-> "idle", product |-> 0, price |-> 0, stock |-> 0, order |-> 0, status |-> ""]

\* The row locks request r holds are released when its transaction ends.
ReleasedP(r) == [p \in Products |-> IF plock[p] = r THEN 0 ELSE plock[p]]
ReleasedO(r) == [o \in OrderIds |-> IF olock[o] = r THEN 0 ELSE olock[o]]

\* transaction.atomic() leaving normally: the uncommitted writes become the
\* committed rows.
CommittedStock(r) ==
  [p \in Products |-> IF p \in DOMAIN req[r].writes THEN req[r].writes[p] ELSE stock[p]]

\* Mutant: no transaction around the loop, the writes made so far stay.
RolledBackStockNoAtomic(r) == CommittedStock(r)

\* transaction.atomic() leaving by an exception: the uncommitted writes are
\* dropped, the committed rows stay as they are.
RolledBackStock(r) == stock

Rollback(r, response) ==
  /\ stock' = RolledBackStock(r)
  /\ plock' = ReleasedP(r)
  /\ olock' = ReleasedO(r)
  /\ req' = [req EXCEPT ![r] = Idle]
  /\ out' = response

\* ----------------------------------------------------------------- Init
TypeCart == UNION {[D -> Quantities] : D \in SUBSET Products}

\* The state every scenario starts from: the catalog is stocked, no request
\* is in flight, nothing is locked.
InitBase ==
  /\ stock \in [Products -> 0..MaxStock]
  /\ products = Products
  /\ plock = [p \in Products |-> 0]
  /\ olock = [o \in OrderIds |-> 0]
  /\ req = [r \in Reqs |-> Idle]
  /\ out = NoResp
  /\ adm = AdmIdle
  /\ payments = <<>>

\* Every cart that holds something was last changed just now: its key has the
\* full time to live; a user without entries has no key.
FreshTtl == [u \in Users |-> IF cart[u] = EmptyMap THEN 0 ELSE TtlTicks]

\* Product p costs p, up to the dearest price.
ListPrice == [p \in Products |-> IF p \in Prices THEN p ELSE MaxPrice]

Init ==
  /\ InitBase
  /\ price = ListPrice
  /\ cart \in [Users -> TypeCart]
  /\ ttl = FreshTtl
  /\ orders = <<>>

\* ------------------------------------------------------------- checkout
CheckoutsInFlight == Cardinality({r \in Reqs : req[r].op = "checkout"})

\* Mutant: the empty snapshot is not refused.
CartIsEmptyNever(items) == FALSE

\* `if not items`
CartIsEmpty(items) == items = <<>>

\* Mutant: the row is read without select_for_update().
LockableUnlocked(r, p) == TRUE

\* select_for_update() on a product row returns once no other transaction holds
\* the row lock.
Lockable(r, p) == plock[p] \in {0, r}

\* Mutant: the stock is not checked before the decrement.
InsufficientStockUnchecked(available, quantity) == FALSE

\* `product.stock < quantity`
InsufficientStock(available, quantity) == available < quantity

\* Mutant: the stock is decremented by one, whatever the quantity.
ReservedOne(available, quantity) == available - 1

\* `product.stock -= quantity`
Reserved(available, quantity) == available - quantity

\* Mutant: the price of the cart snapshot is copied to the OrderItem.
ItemPriceOfSnapshot(item, p) == item.price

\* The price copied to the OrderItem: product.price of the row read under the lock.
ItemPrice(item, p) == price[p]

\* create(), lines 28-39: read the cart, refuse the empty one, open the
\* transaction and insert the Order row.
CheckoutStart(r, u) ==
  /\ req[r].op = "idle"
  /\ Len(orders) + CheckoutsInFlight < MaxOrders
  /\ LET items == get_cart_details(u).items IN
       IF CartIsEmpty(items)
       THEN /\ out' = Response("checkout", u, HTTP_400_BAD_REQUEST, "empty_cart", 0, 0)
            /\ UNCHANGED req
       ELSE /\ req' = [req EXCEPT ![r] =
                 [Idle EXCEPT !.op = "checkout", !.user = u, !.items = items, !.idx = 1,
                              !.pc = IF items = <<>> THEN "clear" ELSE "line"]]
            /\ out' = NoResp
  /\ UNCHANGED <<stock, price, products, cart, ttl, orders, plock, olock, adm, payments>>

\* create(), lines 41-66: one pass of the loop over the snapshot's items.
CheckoutLine(r) ==
  /\ req[r].op = "checkout" /\ req[r].pc = "line"
  /\ LET item == req[r].items[req[r].idx]
         p == item.product_id
         quantity == item.quantity
         u == req[r].user
     IN
       IF p \notin products
       THEN /\ Rollback(r, ErrorResponse("checkout", u, HTTP_400_BAD_REQUEST,
                                         "product_not_found", <<p>>))
            /\ UNCHANGED <<price, products, cart, ttl, orders, adm, payments>>
       ELSE /\ Lockable(r, p)
            /\ IF InsufficientStock(stock[p], quantity)
               THEN /\ Rollback(r, ErrorResponse("checkout", u, HTTP_400_BAD_REQUEST,
                                                 "insufficient_stock", <<p, stock[p]>>))
                    /\ UNCHANGED <<price, products, cart, ttl, orders, adm, payments>>
               ELSE /\ plock' = [plock EXCEPT ![p] = r]
                    /\ req' = [req EXCEPT
                         ![r].newItems = Append(@, [product |-> p, quantity |-> quantity,
                                                    price |-> ItemPrice(item, p)]),
                         ![r].writes = (p :> Reserved(stock[p], quantity)) @@ @,
                         ![r].idx = @ + 1,
                         ![r].pc = IF req[r].idx = Len(req[r].items) THEN "clear" ELSE "line"]
                    /\ out' = NoResp
                    /\ UNCHANGED <<stock, price, products, cart, ttl, orders, olock, adm, payments>>

\* create(), line 68: cart.clear(), still inside the atomic block.
CheckoutClear(r) ==
  /\ req[r].op = "checkout" /\ req[r].pc = "clear"
  /\ cart' = CartClear(req[r].user)
  /\ ttl' = [ttl EXCEPT ![req[r].user] = 0]
  /\ req' = [req EXCEPT ![r].pc = "commit"]
  /\ out' = NoResp
  /\ UNCHANGED <<stock, price, products, orders, plock, olock, adm, payments>>

\* The atomic block is left normally: commit, then the 201 response (line 82).
CheckoutCommit(r) ==
  /\ req[r].op = "checkout" /\ req[r].pc = "commit"
  /\ LET order == [user |-> req[r].user, status |-> "pending", items |-> req[r].newItems]
     IN /\ orders' = Append(orders, order)
        /\ out' = Response("checkout", req[r].user, HTTP_201_CREATED, "", Len(orders) + 1,
                           total_price(order))
  /\ stock' = CommittedStock(r)
  /\ plock' = ReleasedP(r)
  /\ olock' = ReleasedO(r)
  /\ req' = [req EXCEPT ![r] = Idle]
  /\ UNCHANGED <<price, products, cart, ttl, adm, payments>>

\* create(), lines 73-80: any other exception inside the atomic block (the
\* database or Redis failing, the commit itself failing) rolls back and is
\* answered 500.
CheckoutError(r) ==
  /\ req[r].op = "checkout"
  /\ Rollback(r, Response("checkout", req[r].user, HTTP_500_INTERNAL_SERVER_ERROR,
                          "error", 0, 0))
  /\ UNCHANGED <<price, products, cart, ttl, orders, adm, payments>>

\* --------------------------------------------------------------- cancel
\* The stock a transaction sees for a row it has locked: its own uncommitted
\* write when it made one, the committed row otherwise.
StockSeen(r, p) == IF p \in DOMAIN req[r].writes THEN req[r].writes[p] ELSE stock[p]

\* Mutant: the status of the order is not checked.
NotCancelableNever(status) == FALSE

\* `order.status != "pending"`
NotCancelable(status) == status # "pending"

\* Mutant: one unit is put back whatever the item's quantity.
RestoredOne(available, quantity) == available + 1

\* `product.stock += item.quantity`
Restored(available, quantity) == available + quantity

\* Mutant: the order row is read without waiting for its lock.
OrderLockableUnlocked(r, o) == TRUE

\* select_for_update() on an order row returns once no other transaction holds
\* the row lock.
OrderLockable(r, o) == olock[o] \in {0, r}

\* Mutant: the queryset is not filtered by the caller.
get_queryset_all(u) == DOMAIN orders

\* CancelOrderView.get_queryset and OrderDetailView.get_queryset:
\* Order.objects.filter(user=self.request.user).
get_queryset(u) == {o \in DOMAIN orders : orders[o].user = u}

\* OrderDetailView (RetrieveAPIView): get_object() on the caller's own orders,
\* answered with the serialized order (its id and total_price here).
OrderRetrieve(u, o) ==
  /\ out' = IF o \in get_queryset(u)
            THEN Response("retrieve", u, HTTP_200_OK, "", o, total_price(orders[o]))
            ELSE Response("retrieve", u, HTTP_404_NOT_FOUND, "not_found", 0, 0)
  /\ UNCHANGED <<stock, price, products, cart, ttl, orders, plock, olock, req, adm, payments>>

Retrieve == \E u \in Users, o \in OrderIds : OrderRetrieve(u, o)

\* update(), line 117: get_object() on the caller's own orders.
CancelStart(r, u, o) ==
  /\ req[r].op = "idle"
  /\ IF o \in get_queryset(u)
     THEN /\ req' = [req EXCEPT ![r] =
               [Idle EXCEPT !.op = "cancel", !.pc = "lock", !.user = u, !.order = o]]
          /\ out' = NoResp
     ELSE /\ out' = Response("cancel", u, HTTP_404_NOT_FOUND, "not_found", 0, 0)
          /\ UNCHANGED req
  /\ UNCHANGED <<stock, price, products, cart, ttl, orders, plock, olock, adm, payments>>

\* order.items.select_related("product").all(): OrderItem has no Meta.ordering,
\* the query has no ORDER BY and the database returns the rows in an order of
\* its choice.
RowsOf(items) ==
  {rows \in [DOMAIN items -> {items[i] : i \in DOMAIN items}] :
     \A i \in DOMAIN items : \E j \in DOMAIN items : rows[j] = items[i]}

\* update(), lines 119-123: lock the order row, check its status, read its items.
CancelLock(r) ==
  /\ req[r].op = "cancel" /\ req[r].pc = "lock"
  /\ LET o == req[r].order IN
       /\ OrderLockable(r, o)
       /\ IF NotCancelable(orders[o].status)
          THEN /\ Rollback(r, Response("cancel", req[r].user, HTTP_400_BAD_REQUEST,
                                       "only_pending", o, 0))
          ELSE /\ olock' = [olock EXCEPT ![o] = r]
               /\ \E rows \in RowsOf(orders[o].items) :
                    req' = [req EXCEPT ![r].items = rows, ![r].idx = 1,
                                       ![r].pc = IF rows = <<>> THEN "commit" ELSE "item"]
               /\ out' = NoResp
               /\ UNCHANGED <<stock, plock>>
  /\ UNCHANGED <<price, products, cart, ttl, orders, adm, payments>>

\* update(), lines 123-129: one pass of the loop over the order's items.
CancelItem(r) ==
  /\ req[r].op = "cancel" /\ req[r].pc = "item"
  /\ LET item == req[r].items[req[r].idx]
         p == item.product
     IN
       IF p \notin products
       THEN Rollback(r, Response("cancel", req[r].user, HTTP_500_INTERNAL_SERVER_ERROR,
                                 "error", req[r].order, 0))
       ELSE /\ Lockable(r, p)
            /\ plock' = [plock EXCEPT ![p] = r]
            /\ req' = [req EXCEPT
                 ![r].writes = (p :> Restored(StockSeen(r, p), item.quantity)) @@ @,
                 ![r].idx = @ + 1,
                 ![r].pc = IF req[r].idx = Len(req[r].items) THEN "commit" ELSE "item"]
            /\ out' = NoResp
            /\ UNCHANGED <<stock, olock>>
  /\ UNCHANGED <<price, products, cart, ttl, orders, adm, payments>>

\* update(), lines 131-132 and the end of the atomic block: the status is
\* written and the transaction commits; lines 146-148 answer 200.
CancelCommit(r) ==
  /\ req[r].op = "cancel" /\ req[r].pc = "commit"
  /\ orders' = [orders EXCEPT ![req[r].order].status = "canceled"]
  /\ stock' = CommittedStock(r)
  /\ plock' = ReleasedP(r)
  /\ olock' = ReleasedO(r)
  /\ req' = [req EXCEPT ![r] = Idle]
  /\ out' = Response("cancel", req[r].user, HTTP_200_OK, "", req[r].order, 0)
  /\ UNCHANGED <<price, products, cart, ttl, adm, payments>>

\* update(), lines 137-144: any other exception inside the atomic block rolls
\* back and is answered 500.
CancelError(r) ==
  /\ req[r].op = "cancel"
  /\ Rollback(r, Response("cancel", req[r].user, HTTP_500_INTERNAL_SERVER_ERROR,
                          "error", req[r].order, 0))
  /\ UNCHANGED <<price, products, cart, ttl, orders, adm, payments>>

\* ------------------------------------------------------- admin: products
\* ProductView update (RetrieveUpdateDestroyAPIView.update): get_object() reads
\* the row, the serializer overlays the validated fields of the request on it.
\* data holds the fields of the request; a field may be absent (PATCH, or PUT
\* without stock), and then the value read from the row is written back.
ProductData == [has_price : BOOLEAN, price : Prices, has_stock : BOOLEAN, stock : 0..MaxStock]

AdminProductRead(p, data) ==
  /\ adm.pc = "idle"
  /\ p \in products
  /\ adm' = [AdmIdle EXCEPT !.pc = "save", !.product = p,
                !.price = IF data.has_price THEN data.price ELSE price[p],
                !.stock = IF data.has_stock THEN data.stock ELSE stock[p]]
  /\ out' = NoResp
  /\ UNCHANGED <<stock, price, products, cart, ttl, orders, plock, olock, req, payments>>

\* ProductView.perform_update: serializer.save() writes every column of the row;
\* the UPDATE waits for a row lock held by a transaction.
AdminProductSave ==
  /\ adm.pc = "save"
  /\ plock[adm.product] = 0
  /\ price' = [price EXCEPT ![adm.product] = adm.price]
  /\ stock' = [stock EXCEPT ![adm.product] = adm.stock]
  /\ adm' = AdmIdle
  /\ out' = Response("product_update", 0, HTTP_200_OK, "", 0, 0)
  /\ UNCHANGED <<products, cart, ttl, orders, plock, olock, req, payments>>

\* Deleting the product row cascades to the OrderItem rows that reference it
\* (OrderItem.product on_delete=CASCADE).
RECURSIVE WithoutProduct(_, _)
WithoutProduct(items, p) ==
  IF items = <<>> THEN <<>>
  ELSE IF Head(items).product = p THEN WithoutProduct(Tail(items), p)
       ELSE <<Head(items)>> \o WithoutProduct(Tail(items), p)

HTTP_204_NO_CONTENT == 204

\* ProductView.perform_destroy: instance.delete(); the DELETE waits for a row
\* lock held by a transaction.
AdminProductDestroy(p) ==
  /\ adm.pc = "idle"
  /\ p \in products
  /\ plock[p] = 0
  /\ products' = products \ {p}
  /\ orders' = [o \in DOMAIN orders |->
                  [orders[o] EXCEPT !.items = WithoutProduct(@, p)]]
  /\ out' = Response("product_destroy", 0, HTTP_204_NO_CONTENT, "", 0, 0)
  /\ UNCHANGED <<stock, price, cart, ttl, plock, olock, req, adm, payments>>

Catalog ==
  \/ \E p \in Products, data \in ProductData : AdminProductRead(p, data)
  \/ AdminProductSave
  \/ \E p \in Products : AdminProductDestroy(p)

\* --------------------------------------------------- admin: order status
\* Mutant: the requested status is not checked against the table.
TransitionAllowedAlways(status, new_status) == TRUE

\* `new_status not in allowed`
TransitionAllowed(status, new_status) == new_status \in VALID_STATUS_TRANSITIONS[status]

\* UpdateOrderStatusView.perform_update, lines 100-107: get_object() reads the
\* order without a lock and the requested status is checked against the table.
AdvanceCheck(o, new_status) ==
  /\ adm.pc = "idle"
  /\ IF o \notin DOMAIN orders
     THEN /\ out' = Response("advance", 0, HTTP_404_NOT_FOUND, "not_found", 0, 0)
          /\ UNCHANGED adm
     ELSE IF TransitionAllowed(orders[o].status, new_status)
          THEN /\ adm' = [AdmIdle EXCEPT !.pc = "save_status", !.order = o,
                                         !.status = new_status]
               /\ out' = NoResp
          ELSE /\ out' = ErrorResponse("advance", 0, HTTP_400_BAD_REQUEST,
                                       "invalid_transition",
                                       <<o, orders[o].status, new_status>>)
               /\ UNCHANGED adm
  /\ UNCHANGED <<stock, price, products, cart, ttl, orders, plock, olock, req, payments>>

\* perform_update, line 108: serializer.save() writes the order row; the UPDATE
\* waits for a row lock held by a transaction.
AdvanceSave ==
  /\ adm.pc = "save_status"
  /\ olock[adm.order] = 0
  /\ orders' = [orders EXCEPT ![adm.order].status = adm.status]
  /\ adm' = AdmIdle
  /\ out' = Response("advance", 0, HTTP_200_OK, "", adm.order, 0)
  /\ UNCHANGED <<stock, price, products, cart, ttl, plock, olock, req, payments>>

Advance ==
  \/ \E o \in OrderIds, new_status \in STATUS_CHOICES : AdvanceCheck(o, new_status)
  \/ AdvanceSave

\* ------------------------------------------------------------- payments
\* Payment.STATUS_CHOICES
PAYMENT_STATUS == {"pending", "succeeded", "failed", "canceled"}

EVENT_TYPES ==
  {"payment_intent.succeeded", "payment_intent.payment_failed", "payment_intent.canceled"}

\* CreatePaymentIntentView.post: the caller's order is looked up, Stripe hands
\* out a new intent id, and the Payment row is created pending.
CreatePaymentIntent(u, o) ==
  /\ Len(payments) < MaxPayments
  /\ IF o \in DOMAIN orders /\ orders[o].user = u
     THEN /\ payments' = Append(payments, [order |-> o, status |-> "pending",
                                           amount |-> total_price(orders[o])])
          /\ out' = Response("payment_intent", u, HTTP_200_OK, "", o, 0)
     ELSE /\ out' = Response("payment_intent", u, HTTP_404_NOT_FOUND, "not_found", 0, 0)
          /\ UNCHANGED payments
  /\ UNCHANGED <<stock, price, products, cart, ttl, orders, plock, olock, req, adm>>

\* Payment.objects.filter(stripe_payment_intent_id=intent_id).update(status=...)
PaymentsUpdated(intent_id, status) ==
  [i \in DOMAIN payments |->
     IF i = intent_id THEN [payments[i] EXCEPT !.status = status] ELSE payments[i]]

\* Mutant: the event flips the order between pending and paid.
PaidStatusFlipped(status) == IF status = "paid" THEN "pending" ELSE "paid"

\* The status the webhook writes to the order it found.
PaidStatus(status) == "paid"

\* Mutant: the Payment row is updated before the order is looked up.
MissingOrderPaymentsUpdated(intent_id) == PaymentsUpdated(intent_id, "succeeded")

\* Order.DoesNotExist returns before the Payment rows are touched.
MissingOrderPayments(intent_id) == payments

\* stripe_webhook, for a verified event: intent_id is the event object's id,
\* order_id its metadata's order_id (0 when the metadata has none).
StripeWebhook(type, intent_id, order_id) ==
  /\ IF type = "payment_intent.succeeded"
     THEN IF order_id = 0
          THEN /\ out' = Response("webhook", 0, HTTP_200_OK, "", 0, 0)
               /\ UNCHANGED <<orders, payments>>
          ELSE IF order_id \notin DOMAIN orders
               THEN /\ out' = Response("webhook", 0, HTTP_400_BAD_REQUEST, "not_found", 0, 0)
                    /\ payments' = MissingOrderPayments(intent_id)
                    /\ UNCHANGED orders
               ELSE /\ olock[order_id] = 0
                    /\ orders' = [orders EXCEPT ![order_id].status = PaidStatus(@)]
                    /\ payments' = PaymentsUpdated(intent_id, "succeeded")
                    /\ out' = Response("webhook", 0, HTTP_200_OK, "", order_id, 0)
     ELSE /\ payments' = PaymentsUpdated(intent_id,
                           IF type = "payment_intent.payment_failed" THEN "failed"
                           ELSE "canceled")
          /\ out' = Response("webhook", 0, HTTP_200_OK, "", 0, 0)
          /\ UNCHANGED orders
  /\ UNCHANGED <<stock, price, products, cart, ttl, plock, olock, req, adm>>

Intent == \E u \in Users, o \in OrderIds : CreatePaymentIntent(u, o)

Webhook ==
  \E type \in EVENT_TYPES, intent_id \in IntentIds, order_id \in {0} \cup OrderIds :
    StripeWebhook(type, intent_id, order_id)

\* ----------------------------------------------------------------- cart
\* The requests of the cart endpoints send a product id and a quantity.
AddQuantities == 0..MaxStock
UpdateQuantities == -1..MaxStock

\* `int(self.redis.hget(self.key, product_id) or 0)`
hget(u, p) == IF p \in DOMAIN cart[u] THEN cart[u][p] ELSE 0

\* Mutant: the quantity replaces the one stored.
hincrby_overwrite(u, p, current_qty, quantity) == [cart EXCEPT ![u] = (p :> quantity) @@ @]

\* Mutant: the quantity read before is written back increased (read, add, set).
hincrby_of_read(u, p, current_qty, quantity) ==
  [cart EXCEPT ![u] = (p :> (current_qty + quantity)) @@ @]

\* redis.hincrby(key, product_id, quantity): Redis adds to the value the field
\* has now (0 when absent), whatever the caller read before.
hincrby(u, p, current_qty, quantity) ==
  [cart EXCEPT ![u] = (p :> (hget(u, p) + quantity)) @@ @]

\* Mutant: the quantity is added to the one stored.
hset_added(u, p, quantity) == [cart EXCEPT ![u] = (p :> (hget(u, p) + quantity)) @@ @]

\* redis.hset(key, product_id, quantity)
hset(u, p, quantity) == [cart EXCEPT ![u] = (p :> quantity) @@ @]

\* Mutant: the whole hash is deleted.
hdel_all(u, p) == [cart EXCEPT ![u] = EmptyMap]

\* redis.hdel(key, product_id)
hdel(u, p) == [cart EXCEPT ![u] = [x \in DOMAIN @ \ {p} |-> @[x]]]

\* redis.expire(key, 60 * 60 * 24 * 7): the key lives the full week again.
expire(u) == [ttl EXCEPT ![u] = TtlTicks]

\* A key whose hash lost its last field does not exist any more; a key that
\* stays keeps the time to live it had.
TtlAfterDelete(u, newCart) == [ttl EXCEPT ![u] = IF newCart[u] = EmptyMap THEN 0 ELSE @]

\* Mutant: no check against the stock.
NotEnoughStockNever(quantity, available) == FALSE

\* `quantity > product.stock` in _check_stock, `new_qty > product.stock` in add
NotEnoughStock(quantity, available) == quantity > available

\* Mutant: every quantity is accepted.
InvalidAddFieldsNone(p, quantity) == {}

\* CartItemInputSerializer: quantity has min_value=1, validate_product_id asks
\* the database whether the product exists. The fields found invalid.
InvalidAddFields(p, quantity) ==
  (IF quantity < 1 THEN {"quantity"} ELSE {}) \cup
  (IF p \notin products THEN {"product_id"} ELSE {})

\* CartItemUpdateSerializer: quantity has min_value=0.
InvalidUpdateFields(quantity) == IF quantity < 0 THEN {"quantity"} ELSE {}

\* CartItemsView.create, lines 30-33 and 45: the serializer.
AddStart(r, u, p, quantity) ==
  /\ req[r].op = "idle"
  /\ IF InvalidAddFields(p, quantity) # {}
     THEN /\ out' = ErrorResponse("add", u, HTTP_400_BAD_REQUEST, "invalid",
                                  InvalidAddFields(p, quantity))
          /\ UNCHANGED req
     ELSE /\ req' = [req EXCEPT ![r] =
               [Idle EXCEPT !.op = "add", !.pc = "check", !.user = u,
                            !.product_id = p, !.quantity = quantity]]
          /\ out' = NoResp
  /\ UNCHANGED <<stock, price, products, cart, ttl, orders, plock, olock, adm, payments>>

\* RedisCart.add, line 20: _check_stock reads the product row.
AddCheck(r) ==
  /\ req[r].op = "add" /\ req[r].pc = "check"
  /\ LET u == req[r].user
         p == req[r].product_id
     IN IF p \notin products
        THEN /\ out' = ErrorResponse("add", u, HTTP_404_NOT_FOUND, "product_not_found", <<p>>)
             /\ req' = [req EXCEPT ![r] = Idle]
        ELSE IF NotEnoughStock(req[r].quantity, stock[p])
             THEN /\ out' = ErrorResponse("add", u, HTTP_400_BAD_REQUEST,
                                          "insufficient_stock", <<p, stock[p]>>)
                  /\ req' = [req EXCEPT ![r] = Idle]
             ELSE /\ req' = [req EXCEPT ![r].pc = "read", ![r].stock = stock[p]]
                  /\ out' = NoResp
  /\ UNCHANGED <<stock, price, products, cart, ttl, orders, plock, olock, adm, payments>>

\* RedisCart.add, lines 21-25: the quantity held is read and the sum checked
\* against the stock read by _check_stock.
AddRead(r) ==
  /\ req[r].op = "add" /\ req[r].pc = "read"
  /\ LET u == req[r].user
         p == req[r].product_id
         new_qty == hget(u, p) + req[r].quantity
     IN IF NotEnoughStock(new_qty, req[r].stock)
        THEN /\ out' = ErrorResponse("add", u, HTTP_400_BAD_REQUEST,
                                     "insufficient_stock", <<p, req[r].stock>>)
             /\ req' = [req EXCEPT ![r] = Idle]
        ELSE /\ req' = [req EXCEPT ![r].pc = "incr", ![r].current_qty = hget(u, p)]
             /\ out' = NoResp
  /\ UNCHANGED <<stock, price, products, cart, ttl, orders, plock, olock, adm, payments>>

\* RedisCart.add, lines 27-28, and the 201 of CartItemsView.create.
AddIncr(r) ==
  /\ req[r].op = "add" /\ req[r].pc = "incr"
  /\ cart' = hincrby(req[r].user, req[r].product_id, req[r].current_qty, req[r].quantity)
  /\ ttl' = expire(req[r].user)
  /\ req' = [req EXCEPT ![r] = Idle]
  /\ out' = [Response("add", req[r].user, HTTP_201_CREATED, "", 0, 0)
               EXCEPT !.detail = <<req[r].product_id, req[r].quantity>>]
  /\ UNCHANGED <<stock, price, products, orders, plock, olock, adm, payments>>

\* CartItemsView.update, lines 48-50 (the serializer), then RedisCart.update:
\* quantity 0 removes the entry; a quantity above 0 has _check_stock read the
\* product row (line 35).
UpdateStart(r, u, p, quantity) ==
  /\ req[r].op = "idle"
  /\ IF InvalidUpdateFields(quantity) # {}
     THEN /\ out' = ErrorResponse("update", u, HTTP_400_BAD_REQUEST, "invalid",
                                  InvalidUpdateFields(quantity))
          /\ UNCHANGED <<cart, ttl, req>>
     ELSE IF quantity = 0
          THEN /\ cart' = hdel(u, p)
               /\ ttl' = TtlAfterDelete(u, cart')
               /\ out' = [Response("update", u, HTTP_200_OK, "", 0, 0)
                            EXCEPT !.detail = <<p, quantity>>]
               /\ UNCHANGED req
          ELSE IF p \notin products
               THEN /\ out' = ErrorResponse("update", u, HTTP_404_NOT_FOUND,
                                            "product_not_found", <<p>>)
                    /\ UNCHANGED <<cart, ttl, req>>
               ELSE IF NotEnoughStock(quantity, stock[p])
                    THEN /\ out' = ErrorResponse("update", u, HTTP_400_BAD_REQUEST,
                                                 "insufficient_stock", <<p, stock[p]>>)
                         /\ UNCHANGED <<cart, ttl, req>>
                    ELSE /\ req' = [req EXCEPT ![r] =
                              [Idle EXCEPT !.op = "update", !.pc = "set", !.user = u,
                                           !.product_id = p, !.quantity = quantity,
                                           !.stock = stock[p]]]
                         /\ out' = NoResp
                         /\ UNCHANGED <<cart, ttl>>
  /\ UNCHANGED <<stock, price, products, orders, plock, olock, adm, payments>>

\* RedisCart.update, lines 36-37, and the 200 of CartItemsView.update.
UpdateSet(r) ==
  /\ req[r].op = "update" /\ req[r].pc = "set"
  /\ cart' = hset(req[r].user, req[r].product_id, req[r].quantity)
  /\ ttl' = expire(req[r].user)
  /\ req' = [req EXCEPT ![r] = Idle]
  /\ out' = [Response("update", req[r].user, HTTP_200_OK, "", 0, 0)
               EXCEPT !.detail = <<req[r].product_id, req[r].quantity>>]
  /\ UNCHANGED <<stock, price, products, orders, plock, olock, adm, payments>>

\* CartItemsView.destroy: RedisCart.remove.
CartRemove(u, p) ==
  /\ cart' = hdel(u, p)
  /\ ttl' = TtlAfterDelete(u, cart')
  /\ out' = [Response("remove", u, HTTP_204_NO_CONTENT, "", 0, 0) EXCEPT !.detail = <<p>>]
  /\ UNCHANGED <<stock, price, products, orders, plock, olock, req, adm, payments>>

\* CartView.delete: RedisCart.clear.
CartDelete(u) ==
  /\ cart' = CartClear(u)
  /\ ttl' = [ttl EXCEPT ![u] = 0]
  /\ out' = Response("clear", u, HTTP_204_NO_CONTENT, "", 0, 0)
  /\ UNCHANGED <<stock, price, products, orders, plock, olock, req, adm, payments>>

\* CartView.get: the snapshot of the caller's cart.
CartGet(u) ==
  /\ out' = [Response("cart", u, HTTP_200_OK, "", 0, 0)
               EXCEPT !.detail = get_cart_details(u)]
  /\ UNCHANGED <<stock, price, products, cart, ttl, orders, plock, olock, req, adm, payments>>

\* Time passes for the key of user u; a key whose time is up is deleted by
\* Redis.
Tick(u) ==
  /\ ttl[u] > 0
  /\ ttl' = [ttl EXCEPT ![u] = @ - 1]
  /\ cart' = IF ttl[u] = 1 THEN CartClear(u) ELSE cart
  /\ out' = NoResp
  /\ UNCHANGED <<stock, price, products, orders, plock, olock, req, adm, payments>>

\* The endpoints that change the cart, as worker r serves them for user u.
CartBy(r, u) ==
  \/ \E p \in Products, quantity \in AddQuantities : AddStart(r, u, p, quantity)
  \/ AddCheck(r)
  \/ AddRead(r)
  \/ AddIncr(r)
  \/ \E p \in Products, quantity \in UpdateQuantities : UpdateStart(r, u, p, quantity)
  \/ UpdateSet(r)
  \/ \E p \in Products : CartRemove(u, p)
  \/ CartDelete(u)

CheckoutBy(r) ==
  \/ \E u \in Users : CheckoutStart(r, u)
  \/ CheckoutLine(r)
  \/ CheckoutClear(r)
  \/ CheckoutCommit(r)
  \/ CheckoutError(r)

CancelBy(r) ==
  \/ \E u \in Users, o \in OrderIds : CancelStart(r, u, o)
  \/ CancelLock(r)
  \/ CancelItem(r)
  \/ CancelCommit(r)
  \/ CancelError(r)

Checkout == \E r \in Reqs : CheckoutBy(r)

Cancel == \E r \in Reqs : CancelBy(r)

Next == Checkout \/ Cancel

Spec == Init /\ [][Next]_vars

\* The last unit: every user holds one unit of the same product, of which one
\* unit is left, and checks out; no request fails for a reason of the
\* infrastructure.
InitLastUnit ==
  /\ InitBase
  /\ price = ListPrice
  /\ orders = <<>>
  /\ \E hot \in Products :
       /\ stock[hot] = 1
       /\ cart = [u \in Users |-> (hot :> 1)]
  /\ ttl = FreshTtl

CheckoutNoFault(r) ==
  \/ \E u \in Users : CheckoutStart(r, u)
  \/ CheckoutLine(r)
  \/ CheckoutClear(r)
  \/ CheckoutCommit(r)

NextLastUnit == \E r \in Reqs : CheckoutNoFault(r)

SpecLastUnit == InitLastUnit /\ [][NextLastUnit]_vars

\* One shopper, served by one worker, checking out while the admin edits and
\* deletes products.
Shopper == Min(Users)
Worker == Min(Reqs)

InitCatalog ==
  /\ InitBase
  /\ price \in [Products -> Prices]
  /\ cart \in [Users -> TypeCart]
  /\ \A u \in Users \ {Shopper} : cart[u] = EmptyMap
  /\ ttl = FreshTtl
  /\ orders = <<>>

NextCatalog == CheckoutBy(Worker) \/ Catalog

SpecCatalog == InitCatalog /\ [][NextCatalog]_vars

\* The life of orders that exist: cancel by the owner (one request at a time),
\* the admin's status update and payment events, in any interleaving.
RECURSIVE ItemsOf(_, _)
\* The OrderItem rows a checkout of cart c (ids, newest first) creates.
ItemsOf(c, ids) ==
  IF ids = <<>> THEN <<>>
  ELSE <<[product |-> Head(ids), quantity |-> c[Head(ids)], price |-> ListPrice[Head(ids)]]>>
       \o ItemsOf(c, Tail(ids))

PendingOrders ==
  {[user |-> u, status |-> "pending", items |-> ItemsOf(c, SeqDesc(DOMAIN c))] :
     u \in Users, c \in TypeCart \ {EmptyMap}}

InitStatus ==
  /\ InitBase
  /\ stock = [p \in Products |-> 0]
  /\ price = ListPrice
  /\ cart = [u \in Users |-> EmptyMap]
  /\ ttl = FreshTtl
  /\ \E n \in 1..MaxOrders : orders \in [1..n -> PendingOrders]

NextStatus == CancelBy(Worker) \/ Advance \/ Webhook

SpecStatus == InitStatus /\ [][NextStatus]_vars

\* Owners and strangers: every user retrieves and cancels every order id, the
\* ones of other users and the ones that name no order included.
NextOwner == Cancel \/ Retrieve

SpecOwner == InitStatus /\ [][NextOwner]_vars

\* One shopper's cart, used from two devices at a time (two workers), while
\* the admin deletes products and the week passes.
InitCart ==
  /\ InitBase
  /\ price = ListPrice
  /\ cart = [u \in Users |-> EmptyMap]
  /\ ttl = FreshTtl
  /\ orders = <<>>

NextCart ==
  \/ \E r \in Reqs : CartBy(r, Shopper)
  \/ \E p \in Products : AdminProductDestroy(p)
  \/ Tick(Shopper)

SpecCart == InitCart /\ [][NextCart]_vars

\* The shopper looks at the cart while it is filled and emptied (one worker)
\* and the admin edits and deletes products.
NextCartView == CartGet(Shopper) \/ CartBy(Worker, Shopper) \/ Catalog

SpecCartView == InitCart /\ [][NextCartView]_vars

\* The shop floor: the shelves are full, one worker serves the cart requests
\* of every user while another serves their checkouts, up to the first order;
\* no request fails for a reason of the infrastructure.
Clerk == Max(Reqs)

InitShop ==
  /\ InitCart
  /\ stock = [p \in Products |-> MaxStock]

NextShop ==
  \/ \E u \in Users : CartBy(Worker, u)
  \/ orders = <<>> /\ CheckoutNoFault(Clerk)

SpecShop == InitShop /\ [][NextShop]_vars

\* Payments of orders that exist: users open payment intents, Stripe delivers
\* events, duplicated and in any order, and the admin moves the orders on.
\* The orders have one item each.
SingleItemOrders == {order \in PendingOrders : Len(order.items) = 1}

InitPayments ==
  /\ InitBase
  /\ stock = [p \in Products |-> 0]
  /\ price = ListPrice
  /\ cart = [u \in Users |-> EmptyMap]
  /\ ttl = FreshTtl
  /\ \E n \in 1..MaxOrders : orders \in [1..n -> SingleItemOrders]

NextPayments == Intent \/ Webhook \/ Advance

SpecPayments == InitPayments /\ [][NextPayments]_vars

\* ================================================================ claims
\* The steps the claims speak of, told from the state change.

\* Worker r leaves the atomic block of a checkout normally and answers 201.
CheckoutCommitStep(r) ==
  /\ req[r].op = "checkout" /\ req[r].pc = "commit"
  /\ req'[r].op = "idle"
  /\ out'.op = "checkout" /\ out'.code = HTTP_201_CREATED

\* Worker r passes a line of the loop: the row is locked, the OrderItem created.
CheckoutLineStep(r) ==
  /\ req[r].op = "checkout" /\ req[r].pc = "line"
  /\ req'[r].op = "checkout"
  /\ Len(req'[r].newItems) = Len(req[r].newItems) + 1

\* A checkout is refused on one of its lines.
CheckoutLineFailure(response) ==
  /\ response.op = "checkout"
  /\ response.code = HTTP_400_BAD_REQUEST
  /\ response.error \in {"insufficient_stock", "product_not_found"}

\* The quantity of product p in the cart snapshot worker r read.
SnapshotQuantity(r, p) ==
  LET lines == {i \in DOMAIN req[r].items : req[r].items[i].product_id = p}
  IN IF lines = {} THEN 0 ELSE req[r].items[CHOOSE i \in lines : TRUE].quantity

\* C1: every product's stock is >= 0 in every reachable state, committed or
\* written inside a transaction, under any interleaving of checkouts and
\* cancellations.
C1_StockNeverNegative ==
  /\ \A p \in Products : stock[p] >= 0
  /\ \A r \in Reqs : \A p \in DOMAIN req[r].writes : req[r].writes[p] >= 0

\* C1 witness: a checkout has just taken the last units of a product.
C1_Witness ==
  /\ out.op = "checkout" /\ out.code = HTTP_201_CREATED
  /\ \E i \in DOMAIN orders[out.order].items :
       stock[orders[out.order].items[i].product] = 0

\* The product every racer of the last-unit scenario holds or has bought.
Hot ==
  CHOOSE p \in Products :
    \/ \E u \in Users : p \in DOMAIN cart[u]
    \/ \E r \in Reqs : \E i \in DOMAIN req[r].items : req[r].items[i].product_id = p
    \/ \E o \in DOMAIN orders : \E i \in DOMAIN orders[o].items : orders[o].items[i].product = p

\* C2: with one unit left and every user holding one unit, exactly one checkout
\* creates an order (stock becomes 0); every other checkout is refused for
\* insufficient stock and creates none. (A user who sends a further checkout
\* after the one that cleared the cart is told the cart is empty.)
C2_LastUnitSoldOnce ==
  /\ Len(orders) <= 1
  /\ Len(orders) = 0 => stock[Hot] = 1
  /\ Len(orders) = 1 =>
       /\ stock[Hot] = 0
       /\ Len(orders[1].items) = 1
       /\ orders[1].items[1].product = Hot /\ orders[1].items[1].quantity = 1
  /\ (out.op = "checkout" /\ out.code # HTTP_201_CREATED) =>
       \/ out.error = "insufficient_stock" /\ out.detail = <<Hot, 0>> /\ Len(orders) = 1
       \/ out.error = "empty_cart" /\ cart[out.user] = EmptyMap

\* C2 witness: one user got the unit and another user was refused.
C2_Witness ==
  /\ Len(orders) = 1 /\ stock[Hot] = 0
  /\ out.op = "checkout" /\ out.error = "insufficient_stock"
  /\ out.user # orders[1].user

\* C3: a checkout refused on a cart line leaves no order, leaves every
\* product's stock as it was (also of lines passed before the failing one) and
\* leaves every cart as it was.
C3_FailedCheckoutChangesNothing ==
  [][CheckoutLineFailure(out') => (stock' = stock /\ orders' = orders /\ cart' = cart)]_vars

\* C3 witness: a checkout was refused on its second line, its first line
\* having been in stock.
C3_Witness ==
  /\ CheckoutLineFailure(out)
  /\ \A r \in Reqs : req[r].op = "idle"
  /\ LET ids == DetailIds(out.user) IN
       /\ Len(ids) >= 2
       /\ cart[out.user][ids[1]] <= stock[ids[1]]
       /\ out.detail[1] = ids[2]

\* C4: a successful checkout lowers the stock of each product of the cart by
\* the cart quantity, changes no other stock and leaves the user's cart empty.
C4_CheckoutReservesAndClears ==
  [][\A r \in Reqs :
       /\ CheckoutCommitStep(r) =>
            /\ \A p \in Products : stock'[p] = stock[p] - SnapshotQuantity(r, p)
            /\ cart'[req[r].user] = EmptyMap
       /\ (req[r].op = "checkout" /\ req[r].pc = "clear" /\ req'[r].pc = "commit") =>
            /\ cart'[req[r].user] = EmptyMap
            /\ \A u \in Users \ {req[r].user} : cart'[u] = cart[u]]_vars

\* C4 witness: a checkout of two units of a product has committed.
C4_Witness ==
  /\ out.op = "checkout" /\ out.code = HTTP_201_CREATED
  /\ \E i \in DOMAIN orders[out.order].items : orders[out.order].items[i].quantity = 2
  /\ cart[out.user] = EmptyMap

\* C5: a successful checkout creates exactly one order, of the caller, pending,
\* with one OrderItem per line of the cart snapshot, of the line's quantity and
\* of the product's price as read under the row lock; the total returned is the
\* sum of price x quantity over the items.
C5_OrderMatchesCart ==
  [][\A r \in Reqs :
       /\ CheckoutLineStep(r) =>
            LET line == req[r].items[req[r].idx]
                item == req'[r].newItems[Len(req'[r].newItems)]
            IN /\ plock'[line.product_id] = r
               /\ item.product = line.product_id
               /\ item.quantity = line.quantity
               /\ item.price = price[line.product_id]
       /\ CheckoutCommitStep(r) =>
            LET order == orders'[Len(orders')]
                lines == req[r].items
            IN /\ Len(orders') = Len(orders) + 1
               /\ \A o \in DOMAIN orders : orders'[o] = orders[o]
               /\ order.user = req[r].user
               /\ order.status = "pending"
               /\ Len(order.items) = Len(lines)
               /\ \A i \in DOMAIN lines :
                    /\ order.items[i].product = lines[i].product_id
                    /\ order.items[i].quantity = lines[i].quantity
                    /\ order.items[i].price = price[lines[i].product_id]
               /\ out'.order = Len(orders')
               /\ out'.user = req[r].user
               /\ out'.total = SumSeq(LineTotal, order.items)]_vars

\* C5 witness: a two-line checkout is about to commit an item whose price was
\* changed after the cart was read.
C5_Witness ==
  \E r \in Reqs :
    /\ req[r].op = "checkout" /\ req[r].pc = "commit"
    /\ Len(req[r].newItems) = 2
    /\ \E i \in DOMAIN req[r].newItems : req[r].newItems[i].price # req[r].items[i].price

\* C6: checkout clears the cart only after the order transaction has
\* committed: no checkout that has deleted the cart rolls back afterwards.
C6_NoRollbackAfterCartCleared ==
  [][\A r \in Reqs :
       (req[r].op = "checkout" /\ req[r].pc = "commit" /\ req'[r].op = "idle")
         => out'.code = HTTP_201_CREATED]_vars

\* C7: checkout of a cart snapshot without items is refused as an empty cart
\* and has no effect: no transaction is opened for it, no order is created,
\* no stock and no cart changes.
C7_EmptyCartRefused ==
  [][/\ \A r \in Reqs :
          (req[r].op = "idle" /\ req'[r].op = "checkout") => req'[r].items # <<>>
     /\ (out'.op = "checkout" /\ out'.error = "empty_cart") =>
          /\ get_cart_details(out'.user).items = <<>>
          /\ out'.code = HTTP_400_BAD_REQUEST
          /\ UNCHANGED <<stock, price, products, cart, ttl, orders, plock, olock, req, adm,
                         payments>>]_vars

\* C7 witness: a user without cart entries was refused.
C7_Witness ==
  /\ out.op = "checkout" /\ out.error = "empty_cart"
  /\ cart[out.user] = EmptyMap

\* C8: every change of an order's status is an edge of
\* VALID_STATUS_TRANSITIONS, under any interleaving of admin updates, cancels
\* and payment events.
C8_StatusChangesFollowTable ==
  [][\A o \in DOMAIN orders :
       orders'[o].status # orders[o].status
         => orders'[o].status \in VALID_STATUS_TRANSITIONS[orders[o].status]]_vars

\* C9: the admin status update never puts an order into status canceled.
C9_AdvanceNeverCancels ==
  [][(out'.op = "advance" /\ out'.code = HTTP_200_OK)
       => orders'[out'.order].status # "canceled"]_vars

\* The forward edges of the table.
ForwardEdges == {<<"pending", "paid">>, <<"paid", "shipped">>, <<"shipped", "delivered">>}

CancelCommitStep(r) ==
  /\ req[r].op = "cancel" /\ req[r].pc = "commit"
  /\ req'[r].op = "idle"
  /\ out'.op = "cancel" /\ out'.code = HTTP_200_OK

\* The quantity of product p on the OrderItem rows of order o.
OrderQuantity(o, p) ==
  LET q(item) == IF item.product = p THEN item.quantity ELSE 0
  IN SumSeq(q, orders[o].items)

\* C11: a cancel of a pending order by its owner is not refused, and when it
\* commits every product's stock grows by the quantity the order holds of it
\* (nothing for a product the order does not hold), the order becomes canceled
\* and its items stay as they are.
C11_CancelRestoresStock ==
  [][\A r \in Reqs :
       /\ (req[r].op = "cancel" /\ req[r].pc = "lock" /\ req'[r] # req[r]
             /\ orders[req[r].order].status = "pending"
             /\ out'.code # HTTP_500_INTERNAL_SERVER_ERROR) =>
            /\ req'[r].op = "cancel"
            /\ olock'[req[r].order] = r
       /\ CancelCommitStep(r) =>
            LET o == req[r].order
            IN /\ orders[o].user = req[r].user
               /\ orders[o].status = "pending"
               /\ \A p \in Products : stock'[p] = stock[p] + OrderQuantity(o, p)
               /\ orders'[o].status = "canceled"
               /\ orders'[o].items = orders[o].items
               /\ \A x \in DOMAIN orders \ {o} : orders'[x] = orders[x]]_vars

\* C11 witness: a two-item order has just been canceled and one of its
\* products, sold out before, has the item's quantity in stock again.
C11_Witness ==
  /\ out.op = "cancel" /\ out.code = HTTP_200_OK
  /\ orders[out.order].status = "canceled"
  /\ Len(orders[out.order].items) = 2
  /\ \E i \in DOMAIN orders[out.order].items :
       LET item == orders[out.order].items[i]
       IN item.quantity = 2 /\ stock[item.product] = item.quantity

\* C12: a cancel that finds the order paid, shipped, delivered or canceled is
\* answered 400 with the only-pending error (unless the infrastructure fails,
\* 500) and ends there; the step changes no order and no stock.
C12_CancelOnlyPending ==
  [][/\ \A r \in Reqs :
          (req[r].op = "cancel" /\ req[r].pc = "lock" /\ req'[r] # req[r]
             /\ orders[req[r].order].status \in STATUS_CHOICES \ {"pending"}
             /\ out'.code # HTTP_500_INTERNAL_SERVER_ERROR) =>
            /\ out'.op = "cancel" /\ out'.user = req[r].user
            /\ out'.code = HTTP_400_BAD_REQUEST /\ out'.error = "only_pending"
            /\ req'[r].op = "idle"
     /\ (out'.op = "cancel" /\ out'.error = "only_pending") =>
          /\ orders[out'.order].status # "pending"
          /\ orders' = orders
          /\ stock' = stock]_vars

\* C12 witness: the cancel of a shipped order has just been refused.
C12_Witness ==
  /\ out.op = "cancel" /\ out.error = "only_pending"
  /\ orders[out.order].status = "shipped"
  /\ orders[out.order].items # <<>>

\* C13: stock is released at most once per order. An order that has left
\* pending never is pending again; a cancel answers 200 only in the step that
\* takes its order from pending to canceled; and whenever a product's stock
\* grows, it grows in such a step, by the quantity the order holds of the
\* product. So of the cancels of one order, in sequence or concurrent, at most
\* one succeeds and at most the order's quantity comes back.
C13_StockReleasedOnce ==
  [][/\ \A o \in DOMAIN orders :
          orders[o].status # "pending" => orders'[o].status # "pending"
     /\ (out'.op = "cancel" /\ out'.code = HTTP_200_OK) =>
          /\ orders[out'.order].status = "pending"
          /\ orders'[out'.order].status = "canceled"
     /\ \A p \in Products :
          stock'[p] > stock[p] =>
            /\ out'.op = "cancel" /\ out'.code = HTTP_200_OK
            /\ orders[out'.order].status = "pending"
            /\ stock'[p] = stock[p] + OrderQuantity(out'.order, p)]_vars

\* C13 witness: two cancels of the same order are in flight; one holds the
\* order's row lock and has put the stock back in its transaction, the other
\* waits for the lock.
C13_Witness ==
  \E r1, r2 \in Reqs :
    /\ r1 # r2
    /\ req[r1].op = "cancel" /\ req[r2].op = "cancel"
    /\ req[r1].order = req[r2].order
    /\ req[r1].pc = "commit" /\ req[r1].writes # EmptyMap
    /\ olock[req[r1].order] = r1
    /\ req[r2].pc = "lock"

\* C14: cancel is atomic. Every step of a cancel request either leaves the
\* committed stock and orders as they are (also the step that ends it with an
\* error, after some products were restored inside the transaction), or is the
\* commit, which restores every item's quantity and sets the status together.
C14_CancelAtomic ==
  [][\A r \in Reqs :
       (req[r].op = "cancel" /\ req'[r] # req[r]) =>
         \/ /\ stock' = stock
            /\ orders' = orders
            /\ out'.code # HTTP_200_OK
         \/ /\ CancelCommitStep(r)
            /\ orders[req[r].order].status = "pending"
            /\ orders'[req[r].order].status = "canceled"
            /\ \A p \in Products :
                 stock'[p] = stock[p] + OrderQuantity(req[r].order, p)]_vars

\* C14 witness: the middle of a cancel of a two-item order: the first item's
\* product is restored inside the transaction, the second is not yet, and the
\* committed order is pending with the committed stock as before.
C14_Witness ==
  \E r \in Reqs :
    /\ req[r].op = "cancel" /\ req[r].pc = "item" /\ req[r].idx = 2
    /\ Len(req[r].items) = 2
    /\ orders[req[r].order].status = "pending"
    /\ \E p \in DOMAIN req[r].writes : req[r].writes[p] > stock[p]

\* C15: a payment-succeeded event changes an order's status only when the
\* order is pending; an order that is paid, shipped, delivered or canceled
\* keeps its status.
C15_SucceededOnlyFromPending ==
  [][\A o \in DOMAIN orders :
       (out'.op = "webhook" /\ out'.order = o /\ orders[o].status # "pending")
         => orders'[o].status = orders[o].status]_vars

\* The payment-succeeded event of intent i for order o has been applied: the
\* order is paid and the Payment row of the intent, if there is one, succeeded.
SucceededApplied(i, o) ==
  /\ orders[o].status = "paid"
  /\ i \in DOMAIN payments => payments[i].status = "succeeded"

\* C16: applying the payment-succeeded event of an intent for an existing
\* order answers 200 and leaves the order paid and the intent's Payment row
\* succeeded; applied again to what the first application left, it answers
\* 200 and changes no order and no Payment row (no second transition).
C16_SucceededIdempotent ==
  [][\A i \in IntentIds, o \in DOMAIN orders :
       StripeWebhook("payment_intent.succeeded", i, o) =>
         /\ out'.code = HTTP_200_OK
         /\ SucceededApplied(i, o)'
         /\ SucceededApplied(i, o) => (orders' = orders /\ payments' = payments)]_vars

\* C16 witness: the event has been applied to an order whose Payment row it
\* names: the order is paid and the row succeeded.
C16_Witness ==
  /\ out.op = "webhook" /\ out.code = HTTP_200_OK /\ out.order \in DOMAIN orders
  /\ \E i \in DOMAIN payments :
       /\ payments[i].order = out.order
       /\ SucceededApplied(i, out.order)

\* C17: a payment-succeeded event whose order id names no order is answered
\* with an error (400) and changes nothing: every order keeps its status and
\* every Payment row, the one of the event's intent included, its status.
C17_UnknownOrderChangesNothing ==
  [][/\ \A i \in IntentIds, o \in OrderIds \ DOMAIN orders :
          StripeWebhook("payment_intent.succeeded", i, o) =>
            /\ out'.code = HTTP_400_BAD_REQUEST
            /\ orders' = orders
            /\ payments' = payments
     /\ (out'.op = "webhook" /\ out'.code # HTTP_200_OK) =>
          /\ out'.code = HTTP_400_BAD_REQUEST
          /\ orders' = orders
          /\ payments' = payments]_vars

\* C17 witness: an event has just been refused while the Payment row of its
\* intent is pending.
C17_Witness ==
  /\ out.op = "webhook" /\ out.code = HTTP_400_BAD_REQUEST
  /\ Len(orders) < MaxOrders
  /\ \E i \in DOMAIN payments : payments[i].status = "pending"

\* C18: once a Payment row has left pending (an event with a terminal outcome
\* was applied for its intent), every later event for the intent answers 200
\* and changes no order and no Payment row.
C18_LateEventsAreNoOps ==
  [][\A type \in EVENT_TYPES, i \in DOMAIN payments, o \in {0} \cup OrderIds :
       (payments[i].status # "pending" /\ StripeWebhook(type, i, o)) =>
         /\ out'.code = HTTP_200_OK
         /\ orders' = orders
         /\ payments' = payments]_vars

\* What a user is told about an order id that names no order.
StrangerOutcome(op, u) == Response(op, u, HTTP_404_NOT_FOUND, "not_found", 0, 0)

\* C19: retrieve and cancel of an order id that is not the caller's own are
\* answered exactly as for an id that names no order, with the same 404
\* whatever the id and whatever orders exist, and change nothing but the
\* response: the caller cannot tell another user's order from no order.
C19_ForeignOrderIsNotFound ==
  [][\A r \in Reqs, u \in Users, o \in OrderIds :
       (o \notin DOMAIN orders \/ orders[o].user # u) =>
         /\ CancelStart(r, u, o) =>
              /\ out' = StrangerOutcome("cancel", u)
              /\ UNCHANGED <<stock, price, products, cart, ttl, orders, plock, olock, req,
                             adm, payments>>
         /\ OrderRetrieve(u, o) =>
              /\ out' = StrangerOutcome("retrieve", u)
              /\ UNCHANGED <<stock, price, products, cart, ttl, orders, plock, olock, req,
                             adm, payments>>]_vars

\* C19 witness: every order id names a pending order of another user, and the
\* caller's cancel has just been answered not found.
C19_Witness ==
  /\ out.op = "cancel" /\ out.code = HTTP_404_NOT_FOUND
  /\ DOMAIN orders = OrderIds
  /\ \A o \in DOMAIN orders : orders[o].user # out.user /\ orders[o].status = "pending"

\* C20: the price of an OrderItem is frozen. No step rewrites an item of an
\* existing order (every item an order has after a step it had, unchanged,
\* before), and a step that changes a product's price leaves every order,
\* its items and its total_price as they were.
C20_ItemPriceFrozen ==
  [][/\ \A o \in DOMAIN orders :
          \A i \in DOMAIN orders'[o].items :
            \E j \in DOMAIN orders[o].items : orders'[o].items[i] = orders[o].items[j]
     /\ price' # price =>
          /\ orders' = orders
          /\ \A o \in DOMAIN orders : total_price(orders[o])' = total_price(orders[o])]_vars

\* C20 witness: the admin has just saved a product whose price now differs
\* from the price on an order's item of that product.
C20_Witness ==
  /\ out.op = "product_update"
  /\ \E o \in DOMAIN orders :
       \E i \in DOMAIN orders[o].items :
         LET item == orders[o].items[i]
         IN /\ item.product \in products
            /\ item.price # price[item.product]

\* C21: an order that exists stays, with the OrderItem rows (product,
\* quantity, price) and the owner it was created with; only its status
\* changes.
C21_OrderItemsImmutable ==
  [][\A o \in DOMAIN orders :
       /\ o \in DOMAIN orders'
       /\ orders'[o].user = orders[o].user
       /\ orders'[o].items = orders[o].items]_vars

\* Worker r executes the hincrby of an add and answers 201.
AddIncrStep(r) ==
  /\ req[r].op = "add" /\ req[r].pc = "incr"
  /\ req'[r].op = "idle"

\* The entries of the cart of user u other than product p are as they were and
\* the carts of the other users too.
OtherEntriesUnchanged(u, p) ==
  /\ DOMAIN cart'[u] \ {p} = DOMAIN cart[u] \ {p}
  /\ \A x \in DOMAIN cart[u] \ {p} : cart'[u][x] = cart[u][x]
  /\ \A v \in Users \ {u} : cart'[v] = cart[v]

\* C22: an add answers 201 only in the step that raises the quantity stored
\* for its product by exactly the quantity of the request (from 0 when the
\* entry is absent), and that step leaves every other entry as it was.
C22_AddIncrements ==
  [][/\ \A r \in Reqs :
          AddIncrStep(r) =>
            LET u == req[r].user
                p == req[r].product_id
            IN /\ out'.op = "add" /\ out'.code = HTTP_201_CREATED
               /\ p \in DOMAIN cart'[u]
               /\ cart'[u][p] = (IF p \in DOMAIN cart[u] THEN cart[u][p] ELSE 0)
                                  + req[r].quantity
               /\ OtherEntriesUnchanged(u, p)
     /\ (out'.op = "add" /\ out'.code = HTTP_201_CREATED) =>
          \E r \in Reqs : AddIncrStep(r) /\ out'.user = req[r].user]_vars

\* C22 witness: an add of one unit has just brought an entry to two units,
\* next to another entry.
C22_Witness ==
  /\ out.op = "add" /\ out.code = HTTP_201_CREATED
  /\ out.detail[2] = 1
  /\ cart[out.user][out.detail[1]] = 2
  /\ DOMAIN cart[out.user] # {out.detail[1]}

\* Worker r takes a step of the add it is handling at position pc.
AddStepAt(r, pc) == req[r].op = "add" /\ req[r].pc = pc /\ req'[r] # req[r]

\* The add of worker r ends with the given error.
AddRefused(r, code, error) ==
  /\ out'.op = "add" /\ out'.user = req[r].user
  /\ out'.code = code /\ out'.error = error
  /\ req'[r].op = "idle"

\* C23: an add for a product that does not exist fails as product not found
\* (400 from the serializer, 404 when the row is gone by the time the stock is
\* read); an add whose quantity, or whose quantity plus the quantity held,
\* exceeds the stock it read fails as insufficient stock (any add when the
\* stock is 0) and otherwise goes on; every failed add leaves the cart as it
\* was.
C23_AddRefusals ==
  [][/\ \A r \in Reqs, u \in Users, p \in Products, quantity \in AddQuantities :
          (AddStart(r, u, p, quantity) /\ p \notin products) =>
            /\ out'.op = "add" /\ out'.code = HTTP_400_BAD_REQUEST
            /\ "product_id" \in out'.detail
            /\ req'[r].op = "idle"
     /\ \A r \in Reqs :
          LET u == req[r].user
              p == req[r].product_id
              held == IF p \in DOMAIN cart[u] THEN cart[u][p] ELSE 0
          IN /\ AddStepAt(r, "check") =>
                  IF p \notin products
                  THEN AddRefused(r, HTTP_404_NOT_FOUND, "product_not_found")
                  ELSE IF req[r].quantity > stock[p]
                       THEN AddRefused(r, HTTP_400_BAD_REQUEST, "insufficient_stock")
                       ELSE req'[r].pc = "read" /\ req'[r].stock = stock[p]
             /\ AddStepAt(r, "read") =>
                  IF held + req[r].quantity > req[r].stock
                  THEN AddRefused(r, HTTP_400_BAD_REQUEST, "insufficient_stock")
                  ELSE req'[r].pc = "incr"
     /\ (out'.op = "add" /\ out'.code # HTTP_201_CREATED) =>
          /\ cart' = cart
          /\ ttl' = ttl]_vars

\* C23 witness: an add has just been refused for insufficient stock although
\* its quantity alone fits: the user holds the whole stock of the product.
C23_Witness ==
  /\ out.op = "add" /\ out.error = "insufficient_stock"
  /\ LET p == out.detail[1]
     IN /\ p \in products
        /\ stock[p] = MaxStock
        /\ p \in DOMAIN cart[out.user]
        /\ cart[out.user][p] = MaxStock

\* C24: the quantity a successful add or update leaves in an entry never
\* exceeds the stock of the product that this add or update read.
C24_HeldWithinStockRead ==
  [][\A r \in Reqs :
       (AddIncrStep(r) \/ (req[r].op = "update" /\ req[r].pc = "set" /\ req'[r].op = "idle"))
         => cart'[req[r].user][req[r].product_id] <= req[r].stock]_vars

\* C25: no add is lost. The hincrby of an add raises the entry by the add's
\* quantity from the value the entry has at that moment, also when the value
\* is no longer the one the add read; when two adds of one user for one
\* product are both about to increment, the step of either leaves the other
\* as it is, so after both steps the entry holds what it held plus both
\* quantities.
C25_ConcurrentAddsAccumulate ==
  [][\A r1 \in Reqs :
       AddIncrStep(r1) =>
         LET u == req[r1].user
             p == req[r1].product_id
             held == IF p \in DOMAIN cart[u] THEN cart[u][p] ELSE 0
         IN /\ held # req[r1].current_qty => cart'[u][p] = held + req[r1].quantity
            /\ \A r2 \in Reqs \ {r1} :
                 (req[r2].op = "add" /\ req[r2].pc = "incr" /\ req[r2].user = u
                    /\ req[r2].product_id = p) =>
                   /\ cart'[u][p] = held + req[r1].quantity
                   /\ req'[r2] = req[r2]]_vars

\* C25 witness: two adds of one user for one product have both passed their
\* checks and one of them has incremented already: the other is about to
\* increment a value it did not read.
C25_Witness ==
  \E r \in Reqs :
    /\ req[r].op = "add" /\ req[r].pc = "incr"
    /\ out.op = "add" /\ out.code = HTTP_201_CREATED /\ out.user = req[r].user
    /\ out.detail[1] = req[r].product_id
    /\ req[r].product_id \in DOMAIN cart[req[r].user]
    /\ cart[req[r].user][req[r].product_id] = req[r].current_qty + out.detail[2]

\* The step in which an update with a quantity above 0 answers.
UpdateSetStep(r) ==
  /\ req[r].op = "update" /\ req[r].pc = "set"
  /\ req'[r].op = "idle"

\* C26: an update with a quantity q above 0 and within the stock it reads
\* answers 200 and leaves exactly q in the entry, whatever the entry held, and
\* the other entries as they were; with q above the stock it answers 400 and
\* changes no cart; with q = 0 it answers 200 and leaves no entry for the
\* product, whether there was one or not.
C26_UpdateOverwrites ==
  [][/\ \A r \in Reqs :
          UpdateSetStep(r) =>
            LET u == req[r].user
                p == req[r].product_id
            IN /\ req[r].quantity > 0 /\ req[r].quantity <= req[r].stock
               /\ out'.op = "update" /\ out'.code = HTTP_200_OK
               /\ p \in DOMAIN cart'[u]
               /\ cart'[u][p] = req[r].quantity
               /\ OtherEntriesUnchanged(u, p)
     /\ \A r \in Reqs, u \in Users, p \in products, quantity \in UpdateQuantities :
          UpdateStart(r, u, p, quantity) =>
            /\ (quantity > 0 /\ quantity <= stock[p]) =>
                 /\ cart' = cart
                 /\ req'[r].op = "update" /\ req'[r].pc = "set"
                 /\ req'[r].quantity = quantity /\ req'[r].stock = stock[p]
            /\ quantity > stock[p] =>
                 /\ out'.code = HTTP_400_BAD_REQUEST /\ out'.error = "insufficient_stock"
                 /\ cart' = cart /\ req' = req
     /\ \A r \in Reqs, u \in Users, p \in Products :
          UpdateStart(r, u, p, 0) =>
            /\ out'.op = "update" /\ out'.code = HTTP_200_OK
            /\ p \notin DOMAIN cart'[u]
            /\ OtherEntriesUnchanged(u, p)]_vars

\* C26 witness: an update has just stored a quantity in an entry for which an
\* add in flight had read another quantity, above 0.
C26_Witness ==
  \E r \in Reqs :
    /\ req[r].op = "add" /\ req[r].pc = "incr" /\ req[r].current_qty >= 1
    /\ out.op = "update" /\ out.code = HTTP_200_OK /\ out.user = req[r].user
    /\ out.detail[1] = req[r].product_id
    /\ out.detail[2] > 0 /\ out.detail[2] # req[r].current_qty
    /\ cart[req[r].user][req[r].product_id] = out.detail[2]

\* RedisCart.get_cart_details for a cart without entries.
EmptyView == [items |-> <<>>, total_price |-> 0, count |-> 0]

\* C27: remove and clear always answer 204, whether or not the entry or the
\* cart exists. After remove the named entry is absent, every other entry is as
\* it was, and a second remove would change nothing; after clear the cart has
\* no entry, its snapshot is the empty view, and a second clear would change
\* nothing.
C27_RemoveClearIdempotent ==
  [][/\ \A u \in Users, p \in Products :
          CartRemove(u, p) =>
            /\ out'.op = "remove" /\ out'.code = HTTP_204_NO_CONTENT
            /\ p \notin DOMAIN cart'[u]
            /\ OtherEntriesUnchanged(u, p)
            /\ hdel(u, p)' = cart'
     /\ \A u \in Users :
          CartDelete(u) =>
            /\ out'.op = "clear" /\ out'.code = HTTP_204_NO_CONTENT
            /\ \A v \in Users \ {u} : cart'[v] = cart[v]
            /\ get_cart_details(u)' = EmptyView
            /\ CartClear(u)' = cart']_vars

\* C27 witness: a remove has just been answered for a product that is not in
\* the cart, and the cart holds another entry.
C27_Witness ==
  /\ out.op = "remove" /\ out.code = HTTP_204_NO_CONTENT
  /\ out.detail[1] \notin DOMAIN cart[out.user]
  /\ cart[out.user] # EmptyMap

\* The product ids a snapshot lists.
ListedIds(view) == {view.items[i].product_id : i \in 1..Len(view.items)}

\* C28: the snapshot a cart request returns lists, once each, exactly the
\* entries of the caller's cart whose product exists, each with the product's
\* current price, the quantity of the entry and subtotal = price x quantity;
\* total_price is the sum of the listed subtotals and count the number of
\* listed items; for a cart without entries the answer is 200 with items
\* empty, total_price 0 and count 0.
C28_SnapshotOfExistingProducts ==
  out.op = "cart" =>
    LET view == out.detail
        u == out.user
        sub(it) == it.subtotal
    IN /\ out.code = HTTP_200_OK
       /\ ListedIds(view) = DOMAIN cart[u] \cap products
       /\ Len(view.items) = Cardinality(ListedIds(view))
       /\ \A i \in 1..Len(view.items) :
            LET it == view.items[i]
            IN /\ it.price = price[it.product_id]
               /\ it.quantity = cart[u][it.product_id]
               /\ it.subtotal = price[it.product_id] * cart[u][it.product_id]
       /\ view.total_price = SumSeq(sub, view.items)
       /\ view.count = Len(view.items)
       /\ cart[u] = EmptyMap => view = EmptyView

\* C28 witness: a snapshot lists one entry at a price that is no longer the
\* list price while the cart holds another entry whose product was deleted.
C28_Witness ==
  /\ out.op = "cart" /\ out.code = HTTP_200_OK
  /\ Len(out.detail.items) = 1
  /\ price[out.detail.items[1].product_id] # ListPrice[out.detail.items[1].product_id]
  /\ DOMAIN cart[out.user] \ products # {}

\* The step just taken answered a mutating cart request of user u with success.
MutatedCart(u) ==
  /\ out'.user = u
  /\ \/ out'.op = "add" /\ out'.code = HTTP_201_CREATED
     \/ out'.op = "update" /\ out'.code = HTTP_200_OK
     \/ out'.op = "remove" /\ out'.code = HTTP_204_NO_CONTENT

\* C29: every successful add, update (with a quantity above 0 or with 0) and
\* remove that leaves entries in the cart of its user leaves the cart with the
\* whole time to live.
C29_MutationRefreshesTtl ==
  [][\A u \in Users :
       (MutatedCart(u) /\ cart'[u] # EmptyMap) => ttl'[u] = TtlTicks]_vars

\* Every entry stored in a cart holds a quantity of at least 1.
StoredPositive == \A u \in Users : \A p \in DOMAIN cart[u] : cart[u][p] >= 1

\* C30: every entry of every cart holds a quantity of at least 1, whatever
\* add, update and remove requests were served; an add with a quantity
\* below 1 and an update with a quantity below 0 are answered 400 with the
\* quantity named invalid and change no cart, and an update with quantity 0
\* leaves no entry for its product.
C30_QuantitiesPositive ==
  /\ []StoredPositive
  /\ [][/\ \A r \in Reqs, u \in Users, p \in Products :
             \A quantity \in {q \in AddQuantities : q < 1} :
               AddStart(r, u, p, quantity) =>
                 /\ out'.code = HTTP_400_BAD_REQUEST /\ out'.error = "invalid"
                 /\ "quantity" \in out'.detail
                 /\ cart' = cart /\ req' = req
        /\ \A r \in Reqs, u \in Users, p \in Products :
             \A quantity \in {q \in UpdateQuantities : q < 0} :
               UpdateStart(r, u, p, quantity) =>
                 /\ out'.code = HTTP_400_BAD_REQUEST /\ out'.error = "invalid"
                 /\ "quantity" \in out'.detail
                 /\ cart' = cart /\ req' = req
        /\ \A r \in Reqs, u \in Users, p \in Products :
             UpdateStart(r, u, p, 0) => p \notin DOMAIN cart'[u]]_vars

\* C30 witness: an add with a quantity below 1 has just been refused for a
\* user whose cart holds an entry.
C30_Witness ==
  /\ out.op = "add" /\ out.code = HTTP_400_BAD_REQUEST /\ out.error = "invalid"
  /\ "quantity" \in out.detail
  /\ cart[out.user] # EmptyMap

\* The step just taken is one of user u on the own cart: an add, update,
\* remove or clear answered to u or taken for u, or the clear of u's checkout.
ActsOnCartOf(u) ==
  \/ out'.user = u /\ out'.op \in {"add", "update", "remove", "clear"}
  \/ \E r \in Reqs :
       /\ req[r].user = u
       /\ \/ req[r].op \in {"add", "update"} /\ req'[r].op = "idle"
          \/ req[r].op = "checkout" /\ req[r].pc = "clear" /\ req'[r].pc = "commit"

\* C31: the cart of a user changes only in a step of an add, update, remove,
\* clear or checkout of that same user; whatever one user does, the carts of
\* all other users stay as they are.
C31_CartsIndependent ==
  [][\A u \in Users :
       /\ cart'[u] # cart[u] => ActsOnCartOf(u)
       /\ ActsOnCartOf(u) => \A v \in Users \ {u} : cart'[v] = cart[v]]_vars

\* C31 witness: the checkout of one user has just cleared the cart of that
\* user while another user's cart holds an entry.
C31_Witness ==
  \E r \in Reqs :
    /\ req[r].op = "checkout" /\ req[r].pc = "commit"
    /\ cart[req[r].user] = EmptyMap
    /\ \E v \in Users \ {req[r].user} : cart[v] # EmptyMap

\* C32: a checkout that starts while an entry of the caller's cart names a
\* product that does not exist is answered with the product-not-found error at
\* once: it opens no transaction, so no order is created, no stock changes and
\* the cart stays as it is.
C32_MissingProductAbortsCheckout ==
  [][\A r \in Reqs, u \in Users :
       (CheckoutStart(r, u) /\ DOMAIN cart[u] \ products # {}) =>
         /\ out'.code = HTTP_400_BAD_REQUEST /\ out'.error = "product_not_found"
         /\ req' = req]_vars

\* The units of product p that are on the shelf or held by an order that was
\* not canceled.
Ledger(p) ==
  LET held(order) == IF order.status = "canceled" THEN 0
                     ELSE LET q(item) == IF item.product = p THEN item.quantity ELSE 0
                          IN SumSeq(q, order.items)
  IN stock[p] + SumSeq(held, orders)

\* C33: no step of any interleaving of checkouts and cancels changes, for any
\* product, the committed stock plus the quantities of the product on the
\* orders that are not canceled; no order existing at the start, the stock is
\* always the initial stock minus those quantities.
C33_StockLedgerBalanced ==
  [][\A p \in Products : Ledger(p)' = Ledger(p)]_vars

\* C33 witness: a checkout waits for the row of a product that a cancel has
\* locked and written in its transaction, while an order that was not
\* canceled holds units of the same product.
C33_Witness ==
  \E r1, r2 \in Reqs :
    /\ req[r1].op = "checkout" /\ req[r1].pc = "line"
    /\ req[r2].op = "cancel"
    /\ LET p == req[r1].items[req[r1].idx].product_id
       IN /\ plock[p] = r2
          /\ p \in DOMAIN req[r2].writes
          /\ \E o \in DOMAIN orders :
               orders[o].status # "canceled" /\ OrderQuantity(o, p) > 0

\* Request r1 waits for a row lock that the transaction of request r2 holds.
Waits(r1, r2) ==
  /\ r1 # r2
  /\ \/ /\ req[r1].op = "checkout" /\ req[r1].pc = "line"
        /\ plock[req[r1].items[req[r1].idx].product_id] = r2
     \/ /\ req[r1].op = "cancel" /\ req[r1].pc = "lock"
        /\ olock[req[r1].order] = r2
     \/ /\ req[r1].op = "cancel" /\ req[r1].pc = "item"
        /\ plock[req[r1].items[req[r1].idx].product] = r2

\* C34: the row locks are taken in an order that lets no wait cycle form:
\* there is never a set of checkouts and cancels in flight each of which waits
\* for a lock held by another of the set (requests in such a set never
\* finish).
C34_NoWaitCycle ==
  \A S \in SUBSET Reqs :
    S # {} => \E r1 \in S : \A r2 \in S : ~Waits(r1, r2)

\* C35: the committed stock of a product changes only in the step in which a
\* checkout or a cancel that holds the product's row lock commits.
C35_StockWrittenOnlyByLedger ==
  [][\A p \in Products :
       stock'[p] # stock[p] =>
         \E r \in Reqs : /\ CheckoutCommitStep(r) \/ CancelCommitStep(r)
                         /\ plock[p] = r]_vars

\* C36: a checkout that starts while the caller's cart holds entries and none
\* of them names an existing product is answered 400 with the empty-cart
\* error at once; it opens no transaction, creates no order and leaves the
\* cart, stale entries included, as it is.
C36_StaleOnlyCartIsEmpty ==
  [][\A r \in Reqs, u \in Users :
       (CheckoutStart(r, u) /\ cart[u] # EmptyMap /\ DOMAIN cart[u] \cap products = {}) =>
         /\ out'.op = "checkout" /\ out'.code = HTTP_400_BAD_REQUEST
         /\ out'.error = "empty_cart"
         /\ req' = req /\ orders' = orders /\ cart' = cart /\ stock' = stock]_vars

\* C36 witness: a checkout has just been refused with the empty-cart error
\* and the caller's cart holds an entry, of a product that was deleted.
C36_Witness ==
  /\ out.op = "checkout" /\ out.code = HTTP_400_BAD_REQUEST /\ out.error = "empty_cart"
  /\ cart[out.user] # EmptyMap
  /\ DOMAIN cart[out.user] \cap products = {}

C38_CanceledIffStockRestored ==
  [][\A o \in DOMAIN orders :
       /\ (orders[o].status # "canceled" /\ orders'[o].status = "canceled") =>
            \A p \in Products : stock'[p] = stock[p] + OrderQuantity(o, p)
       /\ orders[o].status = "canceled" => orders'[o].status = "canceled"]_vars

\* C39: whenever the admin's update writes a status, the status written is
\* an allowed successor of the status the order holds right before the write.
C39_AdvanceWritesAllowedSuccessor ==
  [][(adm.pc = "save_status" /\ adm'.pc = "idle") =>
       adm.status \in VALID_STATUS_TRANSITIONS[orders[adm.order].status]]_vars

\* C40: every entry that the clear of a checkout deletes from the caller's
\* cart is, with the same quantity, a line of the order the checkout creates.
C40_ClearDeletesOnlyOrdered ==
  [][\A r \in Reqs :
       (req[r].op = "checkout" /\ req[r].pc = "clear" /\ req'[r].pc = "commit") =>
         \A p \in DOMAIN cart[req[r].user] :
           \E i \in DOMAIN req[r].newItems :
             /\ req[r].newItems[i].product = p
             /\ req[r].newItems[i].quantity = cart[req[r].user][p]]_vars
====
